---- MODULE Spec2Model ----
(***************************************************************************)
(* A model of motion/datasets/locomotion.py: the array transformations     *)
(* (mirror_data, reverse_time, the scaler round trip, the synthetic test   *)
(* clips), the constructor pipeline of Locomotion / Human36m, the          *)
(* save_animation output sequence and Human36m.prepare_data /              *)
(* process_data.                                                           *)
(*                                                                         *)
(* A tensor [clip, frame, feature] is a sequence of clips, a clip is a     *)
(* sequence of frames and a frame is a function from the channel indices   *)
(* 0 .. nFeats-1 to integers.  Clips and frames are 1-based here (Python    *)
(* index i is position i+1); channels keep the 0-based indices of the code.*)
(*                                                                         *)
(* Real numbers are fixed-point integers: a raw (unstandardized) value x   *)
(* stands for x / RES and a standardized value z stands for z / ZRES.      *)
(* Divisions round (towards minus infinity), so that a transform followed  *)
(* by its inverse is not the identity by construction.                     *)
(***************************************************************************)
EXTENDS Integers, Sequences, FiniteSets, TLC

VARIABLES
    \* ---- mirror_data applied twice (SpecMirror)
    data,        \* the input tensor d
    aa,          \* mirror_data(data)
    bb,          \* mirror_data(aa)
    fpc,         \* "in" | "once" | "twice"
    \* ---- the scaler round trip and the synthetic clips (SpecScaler)
    s_train,     \* the training tensor t given to fit_and_standardize
    s_d,         \* another clip tensor d
    s_scaler,    \* the fitted scaler
    s_scaled_t,  \* fit_and_standardize(t)[0]
    s_scaled_d,  \* standardize(d, scaler)
    s_inv_t,     \* inv_standardize(s_scaled_t, scaler)
    s_inv_d,     \* inv_standardize(s_scaled_d, scaler)
    s_n_frames,  \* the n_frames given to create_synth_test_data
    s_synth,     \* create_synth_test_data(n_frames, nFeats, scaler)
    spc,         \* "in" | "fitted" | "std" | "inv_d" | "inv_t" | "synth"
    \* ---- Locomotion / Human36m: __init__ and save_animation (Spec)
    cls,             \* the class constructed: "Locomotion" | "Human36m"
    pc,              \* the statement __init__ executes next; "done" once it returned
    exc,             \* the exception that ended the call, or "none"
    fs,              \* the archives under data_root, each named by its number of
                     \* clips: [train |-> n, test |-> m]; ReadArchive gives the clips
    hparams,         \* [mirror, reverse_time, framerate, n_lookahead, dropout]
    batch_size,      \* hparams.Train.batch_size, once read (line 128)
    train_data,      \* locals of __init__
    validation_data,
    test_data,
    all_test_data,
    synth_data2,
    scaler,
    self,            \* the attributes set on the object: name :> value
    log,             \* the pipeline phases executed so far, in order
    n_fits,          \* the number of scalers fitted so far
    reads,           \* the files read so far, in order
    writes,          \* the files written so far, in order
    \* ---- Human36m.prepare_data / process_data (SpecH36m)
    h_env,       \* what the caller supplied before calling prepare_data:
                 \*   "bare"  nothing (the object as __init__ leaves it)
                 \*   "attrs" data_dir, mode, is_test_run, actions, t_total
                 \*   "full"  those, and a binding of the name Skeleton
    h_file,      \* positions_3d of data_3d_h36m.npz: subject :> (action :> sequence)
    h_self,      \* the attributes prepare_data / process_data read and set
    h_pc,        \* the statement prepare_data executes next
    h_exc        \* the exception that ended the call, or "none"

mvars == <<data, aa, bb, fpc>>
svars == <<s_train, s_d, s_scaler, s_scaled_t, s_scaled_d, s_inv_t, s_inv_d, s_n_frames,
           s_synth, spc>>
lvars == <<cls, pc, exc, fs, hparams, batch_size, train_data, validation_data, test_data,
           all_test_data, synth_data2, scaler, self, log, n_fits, reads, writes>>
hvars == <<h_env, h_file, h_self, h_pc, h_exc>>
vars == <<mvars, svars, lvars, hvars>>

\* the parts of the state a specification does not use
MirrorIdle == data = <<>> /\ aa = <<>> /\ bb = <<>> /\ fpc = "idle"
ScalerIdle ==
    /\ s_train = <<>> /\ s_d = <<>> /\ s_scaler = <<>> /\ s_scaled_t = <<>>
    /\ s_scaled_d = <<>> /\ s_inv_t = <<>> /\ s_inv_d = <<>> /\ s_synth = <<>>
    /\ s_n_frames = 0 /\ spc = "idle"
LocoIdle ==
    /\ cls = "none" /\ pc = "idle" /\ exc = "none" /\ fs = <<>> /\ hparams = <<>>
    /\ batch_size = 0 /\ train_data = <<>> /\ validation_data = <<>> /\ test_data = <<>>
    /\ all_test_data = <<>> /\ synth_data2 = <<>> /\ scaler = <<>> /\ self = <<>>
    /\ log = <<>> /\ n_fits = 0 /\ reads = <<>> /\ writes = <<>>
H36mIdle ==
    /\ h_env = "none" /\ h_file = <<>> /\ h_self = <<>> /\ h_pc = "idle" /\ h_exc = "none"

----------------------------------------------------------------------------
(* Bounds of the model *)
MaxSeed == 3
MaxClips == 2
MaxFrames == 2
MaxExtraFeats == 1
MaxExtra == 2          \* archive sizes: 0..MaxExtra and VAL_SIZE-MaxExtra..VAL_SIZE+MaxExtra
MaxTest == 2           \* clips in the test archive
MaxBatch == 3          \* hparams.Train.batch_size: 0..MaxBatch, and the multiples of n_test
MaxSeqlen == 1         \* hparams.Data.seqlen
MaxTTotal == 2         \* self.t_total, and the frames of a take
RES == 100            \* fixed-point units per 1.0 of a raw value
ZRES == 1000          \* fixed-point units per 1.0 of a standardized value

(* Program constants *)
VAL_SIZE == 100       \* train_data[-100:, :, :]
NFEATS == 66          \* highest channel addressed is 65 (mirror_data, reverse_time)

----------------------------------------------------------------------------
(* Tensor helpers *)

Abs(x) == IF x < 0 THEN -x ELSE x

Shape(t) ==
    <<Len(t),
      IF Len(t) = 0 THEN 0 ELSE Len(t[1]),
      IF Len(t) = 0 \/ Len(t[1]) = 0 THEN 0 ELSE Cardinality(DOMAIN t[1][1])>>

\* a[lo:hi:step] = sign * src[slo::step] on the channel axis (numpy basic slicing,
\* both slices of the same length)
SetSlice(a, lo, hi, step, src, slo, sign) ==
    [c \in DOMAIN a |->
        IF c >= lo /\ c < hi /\ (c - lo) % step = 0
        THEN sign * src[slo + (c - lo)]
        ELSE a[c]]

\* a[ch] = sign * src[ch]
SetChan(a, ch, src, sign) ==
    [c \in DOMAIN a |-> IF c = ch THEN sign * src[ch] ELSE a[c]]

----------------------------------------------------------------------------
(* mirror_data, line by line, on one frame *)

\* mutant: the negation of line 15 (aa[:, :, 15:27:3] = -data[:, :, 3:15:3]) is lost
MirrorFrame_OneSidedNegation(fr) ==
    LET a1  == SetSlice(fr, 3, 15, 1, fr, 15, 1)
        a2  == SetSlice(a1, 3, 15, 3, fr, 15, -1)
        a3  == SetSlice(a2, 15, 27, 1, fr, 3, 1)
        a5  == SetSlice(a3, 39, 51, 1, fr, 51, 1)
        a6  == SetSlice(a5, 39, 51, 3, fr, 51, -1)
        a7  == SetSlice(a6, 51, 63, 1, fr, 39, 1)
        a8  == SetSlice(a7, 51, 63, 3, fr, 39, -1)
        a9  == SetChan(a8, 63, fr, -1)
    IN  SetChan(a9, 65, fr, -1)

MirrorFrame(fr) ==
    LET a0  == fr                                     \* aa = data.copy()
        a1  == SetSlice(a0, 3, 15, 1, fr, 15, 1)      \* aa[:, :, 3:15] = data[:, :, 15:27]
        a2  == SetSlice(a1, 3, 15, 3, fr, 15, -1)     \* aa[:, :, 3:15:3] = -data[:, :, 15:27:3]
        a3  == SetSlice(a2, 15, 27, 1, fr, 3, 1)      \* aa[:, :, 15:27] = data[:, :, 3:15]
        a4  == SetSlice(a3, 15, 27, 3, fr, 3, -1)     \* aa[:, :, 15:27:3] = -data[:, :, 3:15:3]
        a5  == SetSlice(a4, 39, 51, 1, fr, 51, 1)     \* aa[:, :, 39:51] = data[:, :, 51:63]
        a6  == SetSlice(a5, 39, 51, 3, fr, 51, -1)    \* aa[:, :, 39:51:3] = -data[:, :, 51:63:3]
        a7  == SetSlice(a6, 51, 63, 1, fr, 39, 1)     \* aa[:, :, 51:63] = data[:, :, 39:51]
        a8  == SetSlice(a7, 51, 63, 3, fr, 39, -1)    \* aa[:, :, 51:63:3] = -data[:, :, 39:51:3]
        a9  == SetChan(a8, 63, fr, -1)                \* aa[:, :, 63] = -data[:, :, 63]
    IN  SetChan(a9, 65, fr, -1)                       \* aa[:, :, 65] = -data[:, :, 65]

\* every clip and frame is transformed alike: the [:, :, ...] of the code
mirror_data(t) == [i \in DOMAIN t |-> [f \in DOMAIN t[i] |-> MirrorFrame(t[i][f])]]

----------------------------------------------------------------------------
(* reverse_time on one clip: frames reversed, control channels negated *)

\* data[:, -1::-1, :]
ReverseFrames(clip) == [f \in DOMAIN clip |-> clip[Len(clip) + 1 - f]]

ReverseChans(fr) ==
    LET a1 == SetChan(fr, 63, fr, -1)       \* aa[:, :, 63] = -aa[:, :, 63]
        a2 == SetChan(a1, 64, a1, -1)       \* aa[:, :, 64] = -aa[:, :, 64]
    IN  SetChan(a2, 65, a2, -1)             \* aa[:, :, 65] = -aa[:, :, 65]

reverse_time(t) ==
    [i \in DOMAIN t |-> [f \in DOMAIN t[i] |-> ReverseChans(ReverseFrames(t[i])[f])]]

----------------------------------------------------------------------------
(* The scaler (sklearn.preprocessing.StandardScaler) in fixed point *)

RECURSIVE SumSeq(_)
SumSeq(s) == IF s = <<>> THEN 0 ELSE Head(s) + SumSeq(Tail(s))

\* the largest r with r * r <= v, by bisection on lo .. hi (lo * lo <= v < (hi+1)^2)
RECURSIVE ISqrtIn(_, _, _)
ISqrtIn(v, lo, hi) ==
    IF lo >= hi THEN lo
    ELSE LET mid == (lo + hi + 1) \div 2
         IN  IF mid * mid <= v THEN ISqrtIn(v, mid, hi) ELSE ISqrtIn(v, lo, mid - 1)

\* the root of a 32-bit value is at most 46340, which keeps mid * mid in range
ISqrt(v) == ISqrtIn(v, 0, IF v < 46340 THEN v ELSE 46340)

\* data.reshape((shape[0] * shape[1], shape[2])): the frames of all clips, row-major
RECURSIVE Flatten(_)
Flatten(t) == IF t = <<>> THEN <<>> ELSE Head(t) \o Flatten(Tail(t))

\* flat.reshape(shape)
Reshape(flat, shape) ==
    [i \in 1..shape[1] |-> [f \in 1..shape[2] |-> flat[(i - 1) * shape[2] + f]]]

\* sklearn's _handle_zeros_in_scale: a zero scale becomes 1.0
HandleZeros(scale) == IF scale = 0 THEN RES ELSE scale

\* StandardScaler().fit(flat): per-feature mean and standard deviation (ddof = 0);
\* n * n * var = n * sum(x^2) - sum(x)^2 is computed exactly
ScalerFit(flat) ==
    LET n == Len(flat)
        chans == DOMAIN flat[1]
        sum(c) == SumSeq([k \in 1..n |-> flat[k][c]])
        sumsq(c) == SumSeq([k \in 1..n |-> flat[k][c] * flat[k][c]])
    IN  [mean_  |-> [c \in chans |-> sum(c) \div n],
         scale_ |-> [c \in chans |->
                        HandleZeros(ISqrt(n * sumsq(c) - sum(c) * sum(c)) \div n)]]

\* scaler.transform(flat): (x - mean_) / scale_
ScalerTransform(flat, sc) ==
    [k \in DOMAIN flat |-> [c \in DOMAIN flat[k] |->
        ((flat[k][c] - sc.mean_[c]) * ZRES) \div sc.scale_[c]]]

\* scaler.inverse_transform(flat): x * scale_ + mean_
ScalerInverse(flat, sc) ==
    [k \in DOMAIN flat |-> [c \in DOMAIN flat[k] |->
        ((flat[k][c] * sc.scale_[c]) \div ZRES) + sc.mean_[c]]]

\* mutant: the forward transform is applied where the inverse is meant
inv_standardize_Forward(t, sc) ==
    Reshape(ScalerTransform(Flatten(t), sc), Shape(t))

inv_standardize(t, sc) ==
    Reshape(ScalerInverse(Flatten(t), sc), Shape(t))

\* fit_and_standardize(data) = <<scaled, scaler>>
fit_and_standardize(t) ==
    LET flat == Flatten(t)
        sc == ScalerFit(flat)
    IN  <<Reshape(ScalerTransform(flat, sc), Shape(t)), sc>>

standardize(t, sc) ==
    Reshape(ScalerTransform(Flatten(t), sc), Shape(t))

----------------------------------------------------------------------------
(* create_synth_test_data *)

N_SYNTH == 7
N_POSE == 63

lo_vel == RES
hi_vel == (5 * RES) \div 2
lo_r_vel == (8 * RES) \div 100
hi_r_vel == (8 * RES) \div 100

\* syth_data[clip, :, ch] = v     (clip is the Python index)
SetClipChan(t, clip, ch, v) ==
    [i \in DOMAIN t |->
        IF i = clip + 1
        THEN [f \in DOMAIN t[i] |-> [c \in DOMAIN t[i][f] |-> IF c = ch THEN v ELSE t[i][f][c]]]
        ELSE t[i]]

\* syth_data[:, :, :63] = zeros
ZeroPose(t) ==
    [i \in DOMAIN t |-> [f \in DOMAIN t[i] |->
        [c \in DOMAIN t[i][f] |-> IF c < N_POSE THEN 0 ELSE t[i][f][c]]]]

SynthRawData(n_frames, nFeats) ==
    LET z0 == [i \in 1..N_SYNTH |-> [f \in 1..n_frames |-> [c \in 0..(nFeats - 1) |-> 0]]]
        z1 == SetClipChan(SetClipChan(z0, 0, 63, 0), 0, 64, 0)
        z2 == SetClipChan(z1, 1, 63, lo_vel)
        z3 == SetClipChan(z2, 2, 64, lo_vel)
        z4 == SetClipChan(z3, 3, 64, hi_vel)
        z5 == SetClipChan(z4, 4, 64, -lo_vel)
        z6 == SetClipChan(z5, 5, 64, lo_vel)
        z7 == SetClipChan(z6, 5, 65, lo_r_vel)
        z8 == SetClipChan(z7, 6, 64, hi_vel)
    IN  SetClipChan(z8, 6, 65, hi_r_vel)

\* mutant: the pose channels keep the standardized image of 0
create_synth_test_data_NoZeroing(n_frames, nFeats, sc) ==
    standardize(SynthRawData(n_frames, nFeats), sc)

create_synth_test_data(n_frames, nFeats, sc) ==
    ZeroPose(standardize(SynthRawData(n_frames, nFeats), sc))

----------------------------------------------------------------------------
(* Input tensors *)

GenVal(seed, i, f, c) == (((seed + 1) * (c + 1) + 7 * i + 13 * f) % 11) - 5

GenTensor(seed, nClips, nFrames, nFeats) ==
    [i \in 1..nClips |-> [f \in 1..nFrames |->
        [c \in 0..(nFeats - 1) |-> GenVal(seed, i, f, c)]]]

\* nonzero in one channel only
UnitTensor(ch, v, nClips, nFrames, nFeats) ==
    [i \in 1..nClips |-> [f \in 1..nFrames |->
        [c \in 0..(nFeats - 1) |-> IF c = ch THEN v * (i + 2 * f) ELSE 0]]]

\* every fourth channel is the same in all clips and frames (zero variance)
MixedTensor(seed, nClips, nFrames, nFeats) ==
    [i \in 1..nClips |-> [f \in 1..nFrames |->
        [c \in 0..(nFeats - 1) |->
            IF c % 4 = 0 THEN GenVal(seed, 0, 0, c) ELSE GenVal(seed, i, f, c)]]]

FeatCounts == NFEATS..(NFEATS + MaxExtraFeats)

InputTensors ==
    { GenTensor(s, n, fr, nf) :
        s \in 0..MaxSeed, n \in 0..MaxClips, fr \in 1..MaxFrames, nf \in FeatCounts }
    \cup
    { UnitTensor(ch, v, MaxClips, MaxFrames, NFEATS + MaxExtraFeats) :
        ch \in 0..(NFEATS + MaxExtraFeats - 1), v \in {-1, 1} }

----------------------------------------------------------------------------
(* SpecMirror: mirror_data applied to an input tensor, then to its result *)

MirrorInit ==
    /\ data \in InputTensors
    /\ aa = <<>>
    /\ bb = <<>>
    /\ fpc = "in"

MirrorOnce ==
    /\ fpc = "in"
    /\ aa' = mirror_data(data)
    /\ fpc' = "once"
    /\ UNCHANGED <<data, bb, svars, lvars, hvars>>

MirrorTwice ==
    /\ fpc = "once"
    /\ bb' = mirror_data(aa)
    /\ fpc' = "twice"
    /\ UNCHANGED <<data, aa, svars, lvars, hvars>>

MirrorNext == MirrorOnce \/ MirrorTwice

InitMirror == MirrorInit /\ ScalerIdle /\ LocoIdle /\ H36mIdle

SpecMirror == InitMirror /\ [][MirrorNext]_vars

----------------------------------------------------------------------------
(* C1: mirror_data is an involution, and one application swaps channel     *)
(* blocks 3..14 <-> 15..26 and 39..50 <-> 51..62, negating the first       *)
(* channel of each triple of the swapped blocks, negates channels 63 and   *)
(* 65 and leaves 0..2, 27..38, 64 (and anything above 65) unchanged.       *)

\* the channel whose value lands in channel c, and its sign
MirrorSource(c) ==
    IF c \in 3..14 \/ c \in 39..50 THEN c + 12
    ELSE IF c \in 15..26 \/ c \in 51..62 THEN c - 12
    ELSE c

MirrorSign(c) ==
    IF (c \in 3..26 \/ c \in 39..62) /\ c % 3 = 0 THEN -1
    ELSE IF c = 63 \/ c = 65 THEN -1
    ELSE 1

IsMirrorOf(out, in) ==
    /\ Len(out) = Len(in)
    /\ \A i \in DOMAIN in :
        /\ Len(out[i]) = Len(in[i])
        /\ \A f \in DOMAIN in[i] :
            /\ DOMAIN out[i][f] = DOMAIN in[i][f]
            /\ \A c \in DOMAIN in[i][f] :
                out[i][f][c] = MirrorSign(c) * in[i][f][MirrorSource(c)]

C1_MirrorInvolution ==
    /\ fpc \in {"once", "twice"} => IsMirrorOf(aa, data)
    /\ fpc = "twice" => bb = data

C1_Witness ==
    /\ fpc = "twice"
    /\ Len(data) > 0
    /\ aa # data
    /\ bb = data
    /\ \E c \in 3..14 : data[1][1][c] # data[1][1][c + 12]

(* SpecScaler: fit_and_standardize on a training tensor, the round trips   *)
(* through standardize / inv_standardize, and the synthetic clips           *)

TrainTensors ==
    { GenTensor(s, n, fr, nf) :
        s \in 0..MaxSeed, n \in 1..MaxClips, fr \in 1..MaxFrames, nf \in FeatCounts }
    \cup
    { MixedTensor(s, MaxClips, fr, NFEATS) : s \in 0..MaxSeed, fr \in 1..MaxFrames }

OtherTensors(nf) ==
    { GenTensor(s, n, MaxFrames, nf) : s \in 0..MaxSeed, n \in 1..MaxClips }
    \cup { UnitTensor(ch, 3, 1, 1, nf) : ch \in {0, 62, 63, 64, 65} }

ScalerInit ==
    /\ s_train \in TrainTensors
    /\ s_d \in OtherTensors(Shape(s_train)[3])
    /\ s_scaler = <<>> /\ s_scaled_t = <<>> /\ s_scaled_d = <<>>
    /\ s_inv_t = <<>> /\ s_inv_d = <<>> /\ s_synth = <<>>
    /\ s_n_frames = 0
    /\ spc = "in"

ScalerFitStep ==
    /\ spc = "in"
    /\ \E r \in {fit_and_standardize(s_train)} :
        /\ s_scaled_t' = r[1]
        /\ s_scaler' = r[2]
    /\ spc' = "fitted"
    /\ UNCHANGED <<s_train, s_d, s_scaled_d, s_inv_t, s_inv_d, s_synth, s_n_frames,
                   mvars, lvars, hvars>>

ScalerStandardize ==
    /\ spc = "fitted"
    /\ s_scaled_d' = standardize(s_d, s_scaler)
    /\ spc' = "std"
    /\ UNCHANGED <<s_train, s_d, s_scaler, s_scaled_t, s_inv_t, s_inv_d, s_synth, s_n_frames,
                   mvars, lvars, hvars>>

ScalerInvD ==
    /\ spc = "std"
    /\ s_inv_d' = inv_standardize(s_scaled_d, s_scaler)
    /\ spc' = "inv_d"
    /\ UNCHANGED <<s_train, s_d, s_scaler, s_scaled_t, s_scaled_d, s_inv_t, s_synth, s_n_frames,
                   mvars, lvars, hvars>>

ScalerInvT ==
    /\ spc = "inv_d"
    /\ s_inv_t' = inv_standardize(s_scaled_t, s_scaler)
    /\ spc' = "inv_t"
    /\ UNCHANGED <<s_train, s_d, s_scaler, s_scaled_t, s_scaled_d, s_inv_d, s_synth, s_n_frames,
                   mvars, lvars, hvars>>

ScalerSynth ==
    /\ spc = "inv_t"
    /\ \E n_frames \in 1..MaxFrames :
        /\ s_n_frames' = n_frames
        /\ s_synth' = create_synth_test_data(n_frames, Shape(s_train)[3], s_scaler)
    /\ spc' = "synth"
    /\ UNCHANGED <<s_train, s_d, s_scaler, s_scaled_t, s_scaled_d, s_inv_t, s_inv_d, mvars, lvars, hvars>>

ScalerNext ==
    ScalerFitStep \/ ScalerStandardize \/ ScalerInvD \/ ScalerInvT \/ ScalerSynth

InitScaler == ScalerInit /\ MirrorIdle /\ LocoIdle /\ H36mIdle

SpecScaler == InitScaler /\ [][ScalerNext]_vars

----------------------------------------------------------------------------
(* C2: inv_standardize(standardize(d, scaler), scaler) recovers d, and     *)
(* inv_standardize(fit_and_standardize(t)[0], scaler) recovers t, with the *)
(* same shape and every value within the rounding tolerance of the fixed-  *)
(* point arithmetic, also for a feature of zero variance.                  *)

\* one rounding of the division by ZRES, scaled by scale_ / ZRES
RoundTripTol(sc, c) == 1 + (sc.scale_[c] \div ZRES)

Recovers(out, in, sc) ==
    /\ Shape(out) = Shape(in)
    /\ \A i \in DOMAIN in : \A f \in DOMAIN in[i] : \A c \in DOMAIN in[i][f] :
        Abs(out[i][f][c] - in[i][f][c]) <= RoundTripTol(sc, c)

C2_RoundTrip ==
    /\ spc \in {"inv_d", "inv_t", "synth"} => Recovers(s_inv_d, s_d, s_scaler)
    /\ spc \in {"inv_t", "synth"} => Recovers(s_inv_t, s_train, s_scaler)

ZeroVariance(t, c) ==
    \A i \in DOMAIN t : \A f \in DOMAIN t[i] : t[i][f][c] = t[1][1][c]

\* a zero-variance feature of t in which d differs from the mean, and a feature
\* of non-zero variance, both recovered
C2_Witness ==
    /\ spc = "inv_t"
    /\ Recovers(s_inv_d, s_d, s_scaler)
    /\ s_scaled_d # s_d
    /\ \E c \in 0..(NFEATS - 1) :
        /\ ZeroVariance(s_train, c)
        /\ s_d[1][1][c] # s_train[1][1][c]
    /\ \E c \in 0..(NFEATS - 1) : ~ZeroVariance(s_train, c)

----------------------------------------------------------------------------
(* C7: create_synth_test_data returns 7 clips of n_frames frames and       *)
(* nFeats features; every pose channel 0..62 is zero; each control channel *)
(* 63..65 holds, in every frame, the standardized image of the raw         *)
(* constant written for that clip (0 where nothing is written).            *)

\* the raw constant of clip k (Python index) in control channel c
SynthControl(k, c) ==
    CASE k = 1 /\ c = 63 -> RES
      [] k = 2 /\ c = 64 -> RES
      [] k = 3 /\ c = 64 -> (5 * RES) \div 2
      [] k = 4 /\ c = 64 -> -RES
      [] k = 5 /\ c = 64 -> RES
      [] k = 5 /\ c = 65 -> (8 * RES) \div 100
      [] k = 6 /\ c = 64 -> (5 * RES) \div 2
      [] k = 6 /\ c = 65 -> (8 * RES) \div 100
      [] OTHER -> 0

StdImage(v, c, sc) == ((v - sc.mean_[c]) * ZRES) \div sc.scale_[c]

C7_SynthClips ==
    spc = "synth" =>
        /\ Len(s_synth) = 7
        /\ \A i \in 1..7 :
            /\ Len(s_synth[i]) = s_n_frames
            /\ \A f \in DOMAIN s_synth[i] :
                /\ DOMAIN s_synth[i][f] = DOMAIN s_train[1][1]
                /\ \A c \in 0..62 : s_synth[i][f][c] = 0
                /\ \A c \in 63..65 :
                    s_synth[i][f][c] = StdImage(SynthControl(i - 1, c), c, s_scaler)

\* the standardized image of 0 in a pose channel is not 0, and two clips differ
C7_Witness ==
    /\ spc = "synth"
    /\ Len(s_synth[1]) > 1
    /\ \E c \in 0..62 : StdImage(0, c, s_scaler) # 0
    /\ s_synth[3][1][64] # s_synth[4][1][64]
    /\ s_synth[6][2][65] # s_synth[1][2][65]

----------------------------------------------------------------------------
(* Locomotion.__init__ / Human36m.__init__ (the two bodies are identical)  *)
(* and save_animation                                                      *)

\* Python's normalisation of a slice bound on a sequence of length n
PyIndex(idx, n) ==
    IF idx < 0 THEN (IF idx + n < 0 THEN 0 ELSE idx + n)
    ELSE (IF idx > n THEN n ELSE idx)

\* seq[start:] and seq[:stop] on the clip axis
PyFrom(seq, start) == SubSeq(seq, PyIndex(start, Len(seq)) + 1, Len(seq))
PyTo(seq, stop) == SubSeq(seq, 1, PyIndex(stop, Len(seq)))

\* t[:, :, -k:] and t[:, :, :-k]
LastChans(t, k) ==
    [i \in DOMAIN t |-> [f \in DOMAIN t[i] |->
        [c \in 0..(k - 1) |-> t[i][f][Cardinality(DOMAIN t[i][f]) - k + c]]]]
ButLastChans(t, k) ==
    [i \in DOMAIN t |-> [f \in DOMAIN t[i] |->
        [c \in 0..(Cardinality(DOMAIN t[i][f]) - k - 1) |-> t[i][f][c]]]]

\* np.concatenate((a, b), axis=2)
ConcatChans(a, b) ==
    [i \in DOMAIN a |-> [f \in DOMAIN a[i] |->
        LET na == Cardinality(DOMAIN a[i][f])
            nb == Cardinality(DOMAIN b[i][f])
        IN  [c \in 0..(na + nb - 1) |->
                IF c < na THEN a[i][f][c] ELSE b[i][f][c - na]]]]

\* np.tile(t, (k, 1, 1))
RECURSIVE Tile(_, _)
Tile(t, k) == IF k <= 0 THEN <<>> ELSE t \o Tile(t, k - 1)

\* mutant: the training set keeps one clip of the validation set
SplitTrain_Overlap(clips) == PyTo(clips, 1 - VAL_SIZE)

\* validation_data = train_data[-100:, :, :] ; train_data = train_data[:-100, :, :]
SplitValidation(clips) == PyFrom(clips, -VAL_SIZE)
SplitTrain(clips) == PyTo(clips, -VAL_SIZE)

\* mutant: one copy too few when n_test divides batch_size
NTiles_Ceil(batch, n_test) == (batch + n_test - 1) \div n_test

\* n_tiles = 1 + hparams.Train.batch_size // self.n_test
NTiles(batch, n_test) == 1 + (batch \div n_test)

\* mutant: a scaler fitted on the data being transformed
TransformHeldOut_Refit(t, sc) == fit_and_standardize(t)[1]

\* standardize(validation_data, scaler), standardize(test_data, scaler)
TransformHeldOut(t, sc) == standardize(t, sc)

\* MotionDataset(control, joints, seqlen, n_lookahead, dropout) and
\* TestDataset(control, joints): the arguments, kept
MotionDataset(control, joints, seqlen, n_lookahead, dropout) ==
    [control |-> control, joints |-> joints, seqlen |-> seqlen,
     n_lookahead |-> n_lookahead, dropout |-> dropout]
TestDataset(control, joints) == [control |-> control, joints |-> joints]

\* the archives: channel 0 carries the clip's position in the archive
ArchiveTensor(seed, n) ==
    [i \in 1..n |-> [f \in 1..MaxFrames |->
        [c \in 0..(NFEATS - 1) |-> IF c = 0 THEN i ELSE GenVal(seed, i, f, c)]]]

\* np.load(...)["clips"] of the train / test archive holding n clips
ReadArchive(which, n) == ArchiveTensor(IF which = "train" THEN 0 ELSE 1, n)

ArchiveSizes == (0..MaxExtra) \cup ((VAL_SIZE - MaxExtra)..(VAL_SIZE + MaxExtra))

TrainFile(framerate) == <<"all_locomotion_train_", framerate, "fps.npz">>
TestFile(framerate) == <<"all_locomotion_test_", framerate, "fps.npz">>

Init ==
    /\ cls \in {"Locomotion", "Human36m"}
    /\ pc = "load"
    /\ exc = "none"
    /\ \E n \in ArchiveSizes, m \in 0..MaxTest :
        fs = [train |-> n, test |-> m]
    /\ \E mi \in BOOLEAN, rv \in BOOLEAN :
        hparams = [mirror |-> mi, reverse_time |-> rv, framerate |-> 20,
                   n_lookahead |-> 0, dropout |-> 0]
    /\ batch_size = 0
    /\ train_data = <<>> /\ validation_data = <<>> /\ test_data = <<>>
    /\ all_test_data = <<>> /\ synth_data2 = <<>> /\ scaler = <<>>
    /\ self = <<>>
    /\ log = <<>> /\ n_fits = 0 /\ reads = <<>> /\ writes = <<>>

\* lines 84-104 / 323-343
Load ==
    /\ pc = "load"
    /\ train_data' = ReadArchive("train", fs.train)
    /\ test_data' = ReadArchive("test", fs.test)
    /\ reads' = reads \o <<TrainFile(hparams.framerate), TestFile(hparams.framerate)>>
    /\ log' = Append(log, "load")
    /\ pc' = "split"
    /\ UNCHANGED <<cls, exc, fs, hparams, batch_size, validation_data, all_test_data,
                   synth_data2, scaler, self, n_fits, writes, mvars, svars, hvars>>

\* lines 107-108 / 346-347
Split ==
    /\ pc = "split"
    /\ validation_data' = SplitValidation(train_data)
    /\ train_data' = SplitTrain(train_data)
    /\ log' = Append(log, "split")
    /\ pc' = "mirror"
    /\ UNCHANGED <<cls, exc, fs, hparams, batch_size, test_data, all_test_data,
                   synth_data2, scaler, self, n_fits, reads, writes, mvars, svars, hvars>>

\* lines 111-113 / 350-352
Mirror ==
    /\ pc = "mirror"
    /\ IF hparams.mirror
       THEN /\ train_data' = train_data \o mirror_data(train_data)
            /\ log' = Append(log, "mirror")
       ELSE UNCHANGED <<train_data, log>>
    /\ pc' = "reverse"
    /\ UNCHANGED <<cls, exc, fs, hparams, batch_size, validation_data, test_data,
                   all_test_data, synth_data2, scaler, self, n_fits, reads, writes,
                   mvars, svars, hvars>>

\* lines 115-117 / 354-356
Reverse ==
    /\ pc = "reverse"
    /\ IF hparams.reverse_time
       THEN /\ train_data' = train_data \o reverse_time(train_data)
            /\ log' = Append(log, "reverse_time")
       ELSE UNCHANGED <<train_data, log>>
    /\ pc' = "fit"
    /\ UNCHANGED <<cls, exc, fs, hparams, batch_size, validation_data, test_data,
                   all_test_data, synth_data2, scaler, self, n_fits, reads, writes,
                   mvars, svars, hvars>>

\* line 120 / 359; StandardScaler.fit raises ValueError on an array of 0 samples
Fit ==
    /\ pc = "fit"
    /\ IF train_data = <<>>
       THEN /\ pc' = "raised"
            /\ exc' = "ValueError"
            /\ UNCHANGED <<train_data, scaler, n_fits, log>>
       ELSE /\ \E r \in {fit_and_standardize(train_data)} :
                /\ train_data' = r[1]
                /\ scaler' = r[2]
            /\ n_fits' = n_fits + 1
            /\ log' = Append(log, "fit")
            /\ pc' = "std_val"
            /\ exc' = exc
    /\ UNCHANGED <<cls, fs, hparams, batch_size, validation_data, test_data,
                   all_test_data, synth_data2, self, reads, writes, mvars, svars, hvars>>

\* line 121 / 360
StdValidation ==
    /\ pc = "std_val"
    /\ validation_data' = TransformHeldOut(validation_data, scaler)
    /\ log' = Append(log, "standardize_validation")
    /\ pc' = "std_test"
    /\ UNCHANGED <<cls, exc, fs, hparams, batch_size, train_data, test_data,
                   all_test_data, synth_data2, scaler, self, n_fits, reads, writes,
                   mvars, svars, hvars>>

\* line 122 / 361; StandardScaler.transform raises ValueError on an array of 0 samples
StdTest ==
    /\ pc = "std_test"
    /\ IF test_data = <<>>
       THEN /\ pc' = "raised"
            /\ exc' = "ValueError"
            /\ UNCHANGED <<all_test_data, log>>
       ELSE /\ all_test_data' = TransformHeldOut(test_data, scaler)
            /\ log' = Append(log, "standardize_test")
            /\ pc' = "synth"
            /\ exc' = exc
    /\ UNCHANGED <<cls, fs, hparams, batch_size, train_data, validation_data, test_data,
                   synth_data2, scaler, self, n_fits, reads, writes, mvars, svars, hvars>>

\* lines 123-125 / 362-364
Synth ==
    /\ pc = "synth"
    /\ synth_data2' = create_synth_test_data(Shape(test_data)[2], Shape(test_data)[3], scaler)
    /\ log' = Append(log, "synth")
    /\ pc' = "concat"
    /\ UNCHANGED <<cls, exc, fs, hparams, batch_size, train_data, validation_data,
                   test_data, all_test_data, scaler, self, n_fits, reads, writes,
                   mvars, svars, hvars>>

\* lines 126-127 / 365-366
Concat ==
    /\ pc = "concat"
    /\ all_test_data' = all_test_data \o synth_data2
    /\ self' = ("n_test" :> Len(all_test_data \o synth_data2)) @@ self
    /\ pc' = "tile"
    /\ UNCHANGED <<cls, exc, fs, hparams, batch_size, train_data, validation_data,
                   test_data, synth_data2, scaler, log, n_fits, reads, writes,
                   mvars, svars, hvars>>

\* lines 128-129 / 367-368; hparams.Train.batch_size is drawn where it is read
TileTest ==
    /\ pc = "tile"
    /\ \E b \in (0..MaxBatch) \cup {self.n_test, 2 * self.n_test} :
        /\ batch_size' = b
        /\ all_test_data' = Tile(all_test_data, NTiles(b, self.n_test))
    /\ log' = Append(log, "tile")
    /\ pc' = "datasets"
    /\ UNCHANGED <<cls, exc, fs, hparams, train_data, validation_data, test_data,
                   synth_data2, scaler, self, n_fits, reads, writes, mvars, svars, hvars>>

\* lines 131-156 / 370-395, and the return: the locals go out of scope;
\* hparams.Data.seqlen is drawn where it is first read
Datasets ==
    /\ pc = "datasets"
    /\ \E seqlen \in {0, MaxSeqlen} :
        LET n_x == Shape(all_test_data)[3] - 3
        IN self' = ( "scaler" :> scaler
                  @@ "frame_rate" :> hparams.framerate
                  @@ "train_dataset" :>
                        MotionDataset(LastChans(train_data, 3), ButLastChans(train_data, 3),
                                      seqlen, hparams.n_lookahead, hparams.dropout)
                  @@ "test_dataset" :>
                        TestDataset(LastChans(all_test_data, 3), ButLastChans(all_test_data, 3))
                  @@ "validation_dataset" :>
                        MotionDataset(LastChans(validation_data, 3),
                                      ButLastChans(validation_data, 3),
                                      seqlen, hparams.n_lookahead, hparams.dropout)
                  @@ "seqlen" :> seqlen
                  @@ "n_x_channels" :> n_x
                  @@ "n_cond_channels" :>
                        n_x * seqlen + 3 * (seqlen + 1 + hparams.n_lookahead)
                  @@ self )
    /\ train_data' = <<>> /\ validation_data' = <<>> /\ test_data' = <<>>
    /\ all_test_data' = <<>> /\ synth_data2' = <<>> /\ scaler' = <<>>
    /\ log' = Append(log, "datasets")
    /\ pc' = "done"
    /\ UNCHANGED <<cls, exc, fs, hparams, batch_size, n_fits, reads, writes, mvars, svars, hvars>>

\* the fixed joint-parent array of save_animation (lines 166-193)
AnimParents ==
    LET p == <<0, 1, 2, 3, 4, 1, 6, 7, 8, 1, 10, 11, 12, 12, 14, 15, 16, 12, 18, 19, 20>>
    IN  [j \in DOMAIN p |-> p[j] - 1]

\* plot_animation(anim_clip[i, self.seqlen:, :], parents, filename_, fps=..., axis_scale=60)
\* for i = lo .. n_clips - 1, in order
RECURSIVE RenderFrom(_, _, _, _, _, _)
RenderFrom(i, n_clips, anim_clip, filename, seqlen, frame_rate) ==
    IF i >= n_clips THEN <<>>
    ELSE << [name |-> <<filename, "_", i, ".mp4">>,
             frames |-> PyFrom(anim_clip[i + 1], seqlen),
             parents |-> AnimParents,
             fps |-> frame_rate,
             axis_scale |-> 60] >>
         \o RenderFrom(i + 1, n_clips, anim_clip, filename, seqlen, frame_rate)

\* mutant: every clip passed is rendered
NAnimClips_All(n_test, n_passed) == n_passed

\* n_clips = min(self.n_test, anim_clip.shape[0])
NAnimClips(n_test, n_passed) == IF n_test < n_passed THEN n_test ELSE n_passed

\* the files save_animation writes, in order (lines 159-200 / 398-439)
AnimationFiles(control_data, motion_data, filename, sc, n_test, seqlen, frame_rate) ==
    LET animation_data == ConcatChans(motion_data, control_data)
        anim_clip == inv_standardize(animation_data, sc)
    IN  << [name |-> <<filename, ".npz">>, clips |-> anim_clip] >>
        \o RenderFrom(0, NAnimClips(n_test, Len(anim_clip)), anim_clip, filename,
                      seqlen, frame_rate)

\* the clips handed to save_animation: n clips of MaxFrames + 1 frames,
\* 63 pose and 3 control channels, standardized values
AnimInput(n) == GenTensor(2, n, MaxFrames + 1, NFEATS)

SaveAnimation ==
    /\ pc = "done"
    /\ writes = <<>>
    /\ \E n \in {1, self.n_test + 1} :
        writes' = AnimationFiles(LastChans(AnimInput(n), 3), ButLastChans(AnimInput(n), 3),
                                 "out", self.scaler, self.n_test, self.seqlen,
                                 self.frame_rate)
    /\ UNCHANGED <<cls, pc, exc, fs, hparams, batch_size, train_data, validation_data,
                   test_data, all_test_data, synth_data2, scaler, self, log, n_fits,
                   reads, mvars, svars, hvars>>

Next ==
    \/ Load \/ Split \/ Mirror \/ Reverse \/ Fit \/ StdValidation \/ StdTest
    \/ Synth \/ Concat \/ TileTest \/ Datasets \/ SaveAnimation

InitAll == Init /\ MirrorIdle /\ ScalerIdle /\ H36mIdle

Spec == InitAll /\ [][Next]_vars

----------------------------------------------------------------------------
(* What the constructor is expected to compute, stated from the archives   *)

Min(a, b) == IF a < b THEN a ELSE b
Max(a, b) == IF a > b THEN a ELSE b

NLoaded == fs.train
NTrain == Max(NLoaded - 100, 0)
NValidation == Min(NLoaded, 100)

Loaded == ReadArchive("train", fs.train)
LoadedTest == ReadArchive("test", fs.test)
OriginalTrain == SubSeq(Loaded, 1, NTrain)
OriginalValidation == SubSeq(Loaded, NLoaded - NValidation + 1, NLoaded)

AugmentedTrain ==
    LET m == IF hparams.mirror THEN OriginalTrain \o mirror_data(OriginalTrain)
             ELSE OriginalTrain
    IN  IF hparams.reverse_time THEN m \o reverse_time(m) ELSE m

ExpectedScaler == ScalerFit(Flatten(AugmentedTrain))

InvImage(z, c, sc) == ((z * sc.scale_[c]) \div ZRES) + sc.mean_[c]

\* out is the image of in under the scaler, value by value
IsStdImageOf(out, in, sc) ==
    /\ Len(out) = Len(in)
    /\ \A i \in DOMAIN in :
        /\ Len(out[i]) = Len(in[i])
        /\ \A f \in DOMAIN in[i] : \A c \in DOMAIN in[i][f] :
            out[i][f][c] = StdImage(in[i][f][c], c, sc)

IsInvImageOf(out, in, sc) ==
    /\ Len(out) = Len(in)
    /\ \A i \in DOMAIN in :
        /\ Len(out[i]) = Len(in[i])
        /\ \A f \in DOMAIN in[i] : \A c \in DOMAIN in[i][f] :
            out[i][f][c] = InvImage(in[i][f][c], c, sc)

ClipIds(t) == { t[i][1][0] : i \in DOMAIN t }

Pow2(k) == IF k = 0 THEN 1 ELSE IF k = 1 THEN 2 ELSE 4

NAugment == (IF hparams.mirror THEN 1 ELSE 0) + (IF hparams.reverse_time THEN 1 ELSE 0)

IsPrefix(a, b) == Len(a) <= Len(b) /\ a = SubSeq(b, 1, Len(a))

----------------------------------------------------------------------------
(* C10: the split partitions the N loaded clips: validation is the last    *)
(* min(N, 100) clips, training the preceding max(N - 100, 0) clips in      *)
(* order, disjoint and together all N; after augmentation the training set *)
(* holds max(N - 100, 0) * 2^(mirror + reverse_time) clips, originals      *)
(* first.                                                                  *)

C10_SplitPartition ==
    /\ pc = "mirror" =>
        /\ validation_data = OriginalValidation
        /\ train_data = OriginalTrain
        /\ Len(validation_data) = NValidation
        /\ Len(train_data) = NTrain
        /\ train_data \o validation_data = Loaded
        /\ ClipIds(train_data) \cap ClipIds(validation_data) = {}
    /\ pc = "reverse" =>
        Len(train_data) = NTrain * (IF hparams.mirror THEN 2 ELSE 1)
    /\ pc = "fit" =>
        /\ Len(train_data) = NTrain * Pow2(NAugment)
        /\ SubSeq(train_data, 1, NTrain) = OriginalTrain

C10_Witness ==
    /\ pc = "fit"
    /\ NLoaded > 100
    /\ NTrain >= 2
    /\ hparams.mirror /\ hparams.reverse_time
    /\ Len(train_data) = 4 * NTrain
    /\ train_data[NTrain + 1] # train_data[1]

----------------------------------------------------------------------------
(* C6: the pipeline runs load, split, augmentation (mirror, then           *)
(* reverse_time over originals and mirrored clips alike), standardize,     *)
(* synthetic clips, datasets; the scaler is fitted once, on the augmented  *)
(* training clips; validation, test and synthetic clips are not augmented  *)
(* and are only transformed with that scaler, which save_animation uses    *)
(* for the inverse.                                                        *)

ExpectedLog ==
    <<"load", "split">>
    \o (IF hparams.mirror THEN <<"mirror">> ELSE <<>>)
    \o (IF hparams.reverse_time THEN <<"reverse_time">> ELSE <<>>)
    \o <<"fit", "standardize_validation", "standardize_test", "synth", "tile", "datasets">>

C6_PipelineOrder ==
    /\ IsPrefix(log, ExpectedLog)
    /\ pc = "done" => log = ExpectedLog
    /\ n_fits <= 1
    /\ pc \in {"std_val", "std_test", "synth", "concat", "tile", "datasets", "done"} =>
        n_fits = 1
    /\ pc = "std_val" =>
        /\ scaler = ExpectedScaler
        /\ \A orig \in {AugmentedTrain} : IsStdImageOf(train_data, orig, scaler)
        /\ validation_data = OriginalValidation
        /\ test_data = LoadedTest
    /\ pc = "std_test" =>
        /\ scaler = ExpectedScaler
        /\ \A orig \in {OriginalValidation} : IsStdImageOf(validation_data, orig, scaler)
    /\ pc = "synth" =>
        /\ scaler = ExpectedScaler
        /\ \A orig \in {LoadedTest} : IsStdImageOf(all_test_data, orig, scaler)
    /\ pc = "concat" =>
        /\ scaler = ExpectedScaler
        /\ \A i \in DOMAIN synth_data2 : \A f \in DOMAIN synth_data2[i] : \A c \in 63..65 :
            synth_data2[i][f][c] = StdImage(SynthControl(i - 1, c), c, scaler)
    /\ pc = "done" => self.scaler = ExpectedScaler
    /\ (pc = "done" /\ writes = <<>>) =>
        \A orig \in {OriginalValidation} :
            \A held \in {ConcatChans(self.validation_dataset.joints,
                                     self.validation_dataset.control)} :
                IsStdImageOf(held, orig, self.scaler)
    /\ writes # <<>> =>
        /\ self.scaler = ExpectedScaler
        /\ \A input \in {AnimInput(Len(writes[1].clips))} :
            IsInvImageOf(writes[1].clips, input, self.scaler)

C6_Witness ==
    /\ pc = "done"
    /\ cls = "Locomotion"
    /\ hparams.mirror /\ hparams.reverse_time
    /\ writes # <<>>
    /\ n_fits = 1
    /\ Len(self.train_dataset.control) = 4 * NTrain
    /\ Len(self.validation_dataset.control) = 100
    /\ ScalerFit(Flatten(OriginalTrain)) # self.scaler

----------------------------------------------------------------------------
(* C4 (as amended): the tiled test set is a whole number k >= 1 of copies  *)
(* of the n_test clips, k = 1 + batch_size // n_test is the smallest whole *)
(* number for which the clip count strictly exceeds batch_size, and n_test *)
(* keeps the count before tiling.                                          *)

TiledCopies == Len(all_test_data) \div self.n_test

IsTiled ==
    /\ self.n_test = fs.test + 7
    /\ self.n_test >= 7
    /\ Len(all_test_data) = TiledCopies * self.n_test
    /\ TiledCopies >= 1
    /\ \A j \in DOMAIN all_test_data :
        all_test_data[j] = all_test_data[((j - 1) % self.n_test) + 1]
    /\ SubSeq(all_test_data, fs.test + 1, self.n_test) = synth_data2

----------------------------------------------------------------------------
(* C5: once the Human36m constructor has returned, the skeleton,           *)
(* kept_joints and data attributes are set and the positions_3d archive    *)
(* data_3d_h36m.npz has been read.                                         *)

----------------------------------------------------------------------------
(* C9: save_animation writes '<filename>.npz' with all inverse-            *)
(* standardized clips (pose channels, then control channels) first, then   *)
(* one video '<filename>_<i>.mp4' per clip index i = 0 ..                   *)
(* min(n_test, clips passed) - 1 in increasing order, each from the frames *)
(* of clip i from index seqlen on, with the 21-joint parent array and the  *)
(* configured frame rate; no video for an index at or beyond n_test.       *)

C9_AnimationFiles ==
    writes # <<>> =>
        \A clips \in {writes[1].clips} : \A input \in {AnimInput(Len(writes[1].clips))} :
            /\ writes[1].name = <<"out", ".npz">>
            /\ Len(clips) \in {1, self.n_test + 1}
            /\ Len(input) = Len(clips)
            /\ \A i \in DOMAIN clips : \A f \in DOMAIN clips[i] :
                DOMAIN clips[i][f] = 0..65
            /\ IsInvImageOf(clips, input, self.scaler)
            /\ Len(writes) = 1 + Min(self.n_test, Len(clips))
            /\ \A k \in 2..Len(writes) :
                /\ writes[k].name = <<"out", "_", k - 2, ".mp4">>
                /\ k - 2 < self.n_test
                /\ writes[k].frames = SubSeq(clips[k - 1], self.seqlen + 1, Len(clips[k - 1]))
                /\ Len(writes[k].parents) = 21
                /\ writes[k].parents = AnimParents
                /\ writes[k].fps = self.frame_rate
                /\ self.frame_rate = hparams.framerate

C9_Witness ==
    /\ writes # <<>>
    /\ Len(writes[1].clips) = self.n_test + 1
    /\ Len(writes) = 1 + self.n_test
    /\ self.seqlen = 1
    /\ Len(writes[2].frames) = Len(writes[1].clips[1]) - 1
    /\ writes[Len(writes)].name = <<"out", "_", self.n_test - 1, ".mp4">>

----------------------------------------------------------------------------
(* Human36m.prepare_data and process_data                                  *)

N_JOINTS == 32

\* Skeleton(parents=[...]) of prepare_data, joints 0 .. 31
H36mParents ==
    LET p == <<-1, 0, 1, 2, 3, 4, 0, 6, 7, 8, 9, 0, 11, 12, 13, 14, 12,
               16, 17, 18, 19, 20, 19, 22, 12, 24, 25, 26, 27, 28, 27, 30>>
    IN  [j \in 0..(Len(p) - 1) |-> p[j + 1]]

H36mJointsLeft == <<6, 7, 8, 9, 10, 16, 17, 18, 19, 20, 21, 22, 23>>
H36mJointsRight == <<1, 2, 3, 4, 5, 24, 25, 26, 27, 28, 29, 30, 31>>

RemovedJoints == {4, 5, 9, 10, 11, 16, 20, 21, 22, 23, 24, 28, 29, 30, 31}

\* [x for x in range(lo, hi) if x not in removed]
RECURSIVE RangeWithout(_, _, _)
RangeWithout(lo, hi, removed) ==
    IF lo >= hi THEN <<>>
    ELSE (IF lo \in removed THEN <<>> ELSE <<lo>>) \o RangeWithout(lo + 1, hi, removed)

\* mutant: the range starts at 1
KeptJoints_FromOne(removed) == RangeWithout(1, N_JOINTS, removed)

\* np.array([x for x in range(32) if x not in self.removed_joints])
KeptJoints(removed) == RangeWithout(0, N_JOINTS, removed)

\* Skeleton.remove_joints: every joint is re-pointed to its nearest ancestor that
\* is kept, the removed joints are dropped and the indices renumbered
RECURSIVE KeptAncestor(_, _, _)
KeptAncestor(parents, p, removed) ==
    IF p \in removed THEN KeptAncestor(parents, parents[p], removed) ELSE p

RemoveJoints(parents, removed) ==
    LET n == Cardinality(DOMAIN parents)
        kept == RangeWithout(0, n, removed)
        up(i) == KeptAncestor(parents, parents[i], removed)
        \* index_offsets[p] when joint i is visited (a parent of -1 reads the last entry)
        offset(i, q) ==
            Cardinality({r \in removed : r < i /\ r <= (IF q < 0 THEN n - 1 ELSE q)})
    IN  [k \in 0..(Len(kept) - 1) |->
            up(kept[k + 1]) - offset(kept[k + 1], up(kept[k + 1]))]

\* "S%d" % x
SubjectName(x) ==
    CASE x = 1 -> "S1" [] x = 5 -> "S5" [] x = 6 -> "S6" [] x = 7 -> "S7"
      [] x = 8 -> "S8" [] x = 9 -> "S9" [] x = 11 -> "S11"

SubjectsSplit(is_test_run) ==
    IF is_test_run THEN [train |-> <<1>>, test |-> <<1>>]
    ELSE [train |-> <<1, 5, 6, 7, 8>>, test |-> <<9, 11>>]

\* the takes of the modelled archives, and Python's  a in name  on them
TakeNames == {"Walking 1 chunk0", "Walking 1 chunk2", "Walking 1 chunk4", "Eating 1 chunk0"}
IsSubstring(a, name) ==
    \/ a = name
    \/ a = "Walking" /\ name \in {"Walking 1 chunk0", "Walking 1 chunk2", "Walking 1 chunk4"}
    \/ a = "Eating" /\ name = "Eating 1 chunk0"
    \/ a = "chunk0" /\ name \in {"Walking 1 chunk0", "Eating 1 chunk0"}

Restrict(f, keys) == [k \in (DOMAIN f) \cap keys |-> f[k]]

\* seq = data[:, kept_joints, :] ; seq[:, 1:] -= seq[:, :1]
RootRelative(take, kept) ==
    [f \in DOMAIN take |->
        [k \in 0..(Len(kept) - 1) |->
            IF k = 0 THEN take[f][kept[1]]
            ELSE [a \in 1..3 |-> take[f][kept[k + 1]][a] - take[f][kept[1]][a]]]]

\* the filter of lines 229-238 on one subject's takes
PassesFilter(name, take, actions, t_total) ==
    /\ actions = "all" \/ \A k \in DOMAIN actions : IsSubstring(actions[k], name)
    /\ Len(take) >= t_total

\* process_data: [exc |-> ..., data |-> ...]; dict[key] and dict.pop(key) raise
\* KeyError on a key that is absent
ProcessData(me, file) ==
    LET subjects == { me.subjects[k] : k \in DOMAIN me.subjects }
        data_f == Restrict(file, subjects)
        bad_subject == IF me.mode = "train" THEN "Train/S3" ELSE "Validate/S3"
        bad_takes == IF me.mode = "train" THEN {"Walking 1 chunk0", "Walking 1 chunk2"}
                     ELSE {"Walking 1 chunk4"}
    IN  IF bad_subject \notin DOMAIN data_f \/ ~(bad_takes \subseteq DOMAIN data_f[bad_subject])
        THEN [exc |-> "KeyError", data |-> <<>>]
        ELSE
            LET popped == [s \in DOMAIN data_f |->
                              IF s = bad_subject
                              THEN Restrict(data_f[s], (DOMAIN data_f[s]) \ bad_takes)
                              ELSE data_f[s]]
                filtered == [s \in DOMAIN popped |->
                                Restrict(popped[s],
                                    {a \in DOMAIN popped[s] :
                                        PassesFilter(a, popped[s][a], me.actions, me.t_total)})]
                nonempty == Restrict(filtered, {s \in DOMAIN filtered : DOMAIN filtered[s] # {}})
            IN  [exc |-> "none",
                 data |-> [s \in DOMAIN nonempty |-> [a \in DOMAIN nonempty[s] |->
                              RootRelative(nonempty[s][a], me.kept_joints)]]]

\* a take of n frames: [frame][joint] = <<x, y, z>>
Take(seed, n) ==
    [f \in 1..n |-> [j \in 0..(N_JOINTS - 1) |-> <<seed + j + f, 2 * j - f, seed * f>>]]

Takes(seed) ==
    [a \in TakeNames |->
        Take(seed, IF a = "Walking 1 chunk2" THEN MaxTTotal
                   ELSE IF a = "Eating 1 chunk0" THEN 1 ELSE MaxTTotal + 1)]

ArchiveKeys ==
    { {"S1", "S5", "S6", "S7", "S8", "S9", "S11"},
      {"S1", "S9", "Train/S3", "Validate/S3"},
      {"S1", "S5", "S9", "S11", "Train/S3", "Validate/S3"},
      {"S1"},
      {"Train/S3", "Validate/S3"} }

H36mInit ==
    /\ h_env \in {"bare", "attrs", "full"}
    /\ \E keys \in ArchiveKeys, seed \in 0..MaxSeed :
        h_file = [s \in keys |-> Takes(seed)]
    /\ IF h_env = "bare"
       THEN h_self = <<>>
       ELSE \E mode \in {"train", "test"}, is_test_run \in BOOLEAN,
               actions \in {"all", <<"Walking">>, <<"Walking", "chunk0">>},
               t_total \in 1..MaxTTotal :
                h_self = [data_dir |-> "data", mode |-> mode, is_test_run |-> is_test_run,
                          actions |-> actions, t_total |-> t_total]
    /\ h_pc = "subjects"
    /\ h_exc = "none"

\* lines 249-254; an attribute that was never set raises AttributeError
PrepSubjects ==
    /\ h_pc = "subjects"
    /\ IF "data_dir" \notin DOMAIN h_self
       THEN /\ h_pc' = "raised"
            /\ h_exc' = "AttributeError"
            /\ h_self' = h_self
       ELSE /\ LET split == SubjectsSplit(h_self.is_test_run)
                   ids == split[h_self.mode]
               IN h_self' = ( "data_file" :> <<h_self.data_dir, "data_3d_h36m.npz">>
                           @@ "subjects_split" :> split
                           @@ "subjects" :> [k \in DOMAIN ids |-> SubjectName(ids[k])]
                           @@ h_self )
            /\ h_pc' = "skeleton"
            /\ h_exc' = h_exc
    /\ UNCHANGED <<h_env, h_file, mvars, svars, lvars>>

\* lines 255-292; the module never binds the name Skeleton: NameError unless
\* the caller has bound it
PrepSkeleton ==
    /\ h_pc = "skeleton"
    /\ IF h_env # "full"
       THEN /\ h_pc' = "raised"
            /\ h_exc' = "NameError"
            /\ h_self' = h_self
       ELSE /\ h_self' = ( "skeleton" :> [parents |-> H36mParents,
                                          joints_left |-> H36mJointsLeft,
                                          joints_right |-> H36mJointsRight]
                        @@ h_self )
            /\ h_pc' = "joints"
            /\ h_exc' = h_exc
    /\ UNCHANGED <<h_env, h_file, mvars, svars, lvars>>

\* lines 293-312
PrepJoints ==
    /\ h_pc = "joints"
    /\ h_self' = ( "removed_joints" :> RemovedJoints
                @@ "kept_joints" :> KeptJoints(RemovedJoints)
                @@ h_self )
    /\ h_pc' = "remove"
    /\ UNCHANGED <<h_env, h_file, h_exc, mvars, svars, lvars>>

\* line 313
PrepRemove ==
    /\ h_pc = "remove"
    /\ h_self' = [h_self EXCEPT !.skeleton.parents =
                        RemoveJoints(h_self.skeleton.parents, h_self.removed_joints)]
    /\ h_pc' = "override"
    /\ UNCHANGED <<h_env, h_file, h_exc, mvars, svars, lvars>>

\* lines 314-315; an index outside the array raises IndexError
PrepOverride ==
    /\ h_pc = "override"
    /\ IF {11, 14} \subseteq DOMAIN h_self.skeleton.parents
       THEN /\ h_self' = [h_self EXCEPT !.skeleton.parents =
                                [@ EXCEPT ![11] = 8, ![14] = 8]]
            /\ h_pc' = "process"
            /\ h_exc' = h_exc
       ELSE /\ h_pc' = "raised"
            /\ h_exc' = "IndexError"
            /\ h_self' = h_self
    /\ UNCHANGED <<h_env, h_file, mvars, svars, lvars>>

\* line 316: self.process_data()
PrepProcess ==
    /\ h_pc = "process"
    /\ LET r == ProcessData(h_self, h_file)
       IN  /\ h_exc' = r.exc
           /\ h_self' = IF r.exc = "none" THEN ("data" :> r.data) @@ h_self ELSE h_self
    /\ h_pc' = "processed"
    /\ UNCHANGED <<h_env, h_file, mvars, svars, lvars>>

H36mNext ==
    PrepSubjects \/ PrepSkeleton \/ PrepJoints \/ PrepRemove \/ PrepOverride \/ PrepProcess

InitH36m == H36mInit /\ MirrorIdle /\ ScalerIdle /\ LocoIdle

SpecH36m == InitH36m /\ [][H36mNext]_vars

----------------------------------------------------------------------------
(* C3: of the 32 joints the 15 removed ones are dropped and exactly 17     *)
(* remain; kept_joints lists exactly the indices of 0..31 outside          *)
(* removed_joints, ascending and without duplicates; the overrides of      *)
(* joints 11 and 14 to parent 8 address joints of the reduced skeleton.    *)

C3_JointRemoval ==
    /\ h_pc \in {"remove", "override", "process", "processed"} =>
        LET kept == h_self.kept_joints
            removed == h_self.removed_joints
        IN  /\ Cardinality(DOMAIN H36mParents) = 32
            /\ Cardinality(removed) = 15
            /\ removed \subseteq 0..31
            /\ Len(kept) = 32 - Cardinality(removed)
            /\ Len(kept) = 17
            /\ { kept[k] : k \in DOMAIN kept } = (0..31) \ removed
            /\ \A k \in 1..(Len(kept) - 1) : kept[k] < kept[k + 1]
    /\ h_pc \in {"override", "process", "processed"} =>
        /\ DOMAIN h_self.skeleton.parents = 0..(Len(h_self.kept_joints) - 1)
        /\ {8, 11, 14} \subseteq DOMAIN h_self.skeleton.parents
    /\ h_pc \in {"process", "processed"} =>
        /\ h_self.skeleton.parents[11] = 8
        /\ h_self.skeleton.parents[14] = 8
        /\ h_exc # "IndexError"
    /\ h_exc # "IndexError"

C3_Witness ==
    /\ h_pc = "process"
    /\ Len(h_self.kept_joints) = 17
    /\ Cardinality(DOMAIN h_self.skeleton.parents) = 17
    /\ h_self.skeleton.parents[11] = 8
    /\ h_self.kept_joints[12] = 17

----------------------------------------------------------------------------
(* C8: process_data, run after prepare_data in either mode, completes      *)
(* without raising and leaves in self.data only the selected subjects,     *)
(* without the known-bad takes; every retained sequence has at least       *)
(* t_total frames and passes the action filter, no subject is left empty,  *)
(* and each sequence holds the kept joints relative to joint 0.            *)

C8_ProcessDataCompletes ==
    h_pc = "processed" =>
        /\ h_exc = "none"
        /\ "data" \in DOMAIN h_self
        /\ DOMAIN h_self.data \subseteq { h_self.subjects[k] : k \in DOMAIN h_self.subjects }
        /\ \A s \in DOMAIN h_self.data :
            /\ DOMAIN h_self.data[s] # {}
            /\ \A a \in DOMAIN h_self.data[s] :
                /\ PassesFilter(a, h_self.data[s][a], h_self.actions, h_self.t_total)
                /\ h_self.data[s][a] = RootRelative(h_file[s][a], h_self.kept_joints)

====
